---- MODULE Spec2Model ----
(***************************************************************************)
(* Leave-approval workflow and balance ledger of gesconge (Django).        *)
(* One action per view of leaves/views.py; every action is the whole       *)
(* request/response cycle of that view.  Database rows are records, the    *)
(* tables are a sequence (LeaveRequest, pk = index) and sets of rows.      *)
(***************************************************************************)
EXTENDS Integers, Sequences, FiniteSets, TLC

VARIABLES
    requests,    \* table LeaveRequest: sequence of rows, pk = position
    approvals,   \* table LeaveApproval: set of rows
    balances,    \* table LeaveBalance: set of rows
    debited,     \* per request pk: how many times its working_days were added to used_days
    today,       \* date.today(), a day offset (see weekday / year_of)
    workers      \* per server worker: where it is inside a final approval

vars == <<requests, approvals, balances, debited, today, workers>>

-----------------------------------------------------------------------------
(* Bounds of the model *)

MaxReq == 1          \* rows the LeaveRequest table may hold
MaxDate == 2         \* dates are the day offsets 0..MaxDate
MaxToday == 1        \* date.today() ranges over 0..MaxToday
MaxDays == 2         \* cap of every balance counter
MaxAmount == 2       \* largest amount of a balance adjustment
MaxDebits == 2       \* cap of the debits counted per request
MaxPair == 2         \* rows of the LeaveRequest table in the two-request runs

-----------------------------------------------------------------------------
(* Organisation: users/models.py *)

NULL == "NULL"

Users == {"emp1", "emp2", "emp3", "lead3", "mgr1", "mgr2", "hr1"}

\* User.role
role == [u \in Users |->
            CASE u = "mgr1" -> "manager"
              [] u = "mgr2" -> "manager"
              [] u = "hr1"  -> "hr"
              [] OTHER      -> "employee"]

\* User.is_approver (BooleanField, default False)
is_approver == [u \in Users |-> FALSE]

\* User.service, User.department (nullable foreign keys)
service == [u \in Users |->
            CASE u = "emp1" -> "s1"
              [] u = "emp2" -> "s2"
              [] u \in {"emp3", "lead3"} -> "s3"
              [] OTHER      -> NULL]

department == [u \in Users |->
            CASE u \in {"emp1", "emp2", "mgr1"} -> "d1"
              [] OTHER -> NULL]

\* Service.manager, Department.manager (nullable foreign keys)
service_manager == [s \in {"s1", "s2", "s3"} |->
            CASE s = "s1" -> "mgr1"
              [] s = "s3" -> "lead3"
              [] OTHER    -> NULL]

department_manager == [d \in {"d1"} |-> "mgr2"]

is_hr(u) == role[u] \in {"hr", "admin"}

is_admin(u) == role[u] = "admin"

is_manager(u) == role[u] \in {"manager", "admin", "hr"} \/ is_approver[u]

-----------------------------------------------------------------------------
(* Leave types: leaves/models.py LeaveType *)

LeaveTypes == {"paid", "sick"}

\* max_consecutive_days = 0 stands for NULL (unlimited)
LeaveType == [t \in LeaveTypes |->
    IF t = "paid"
    THEN [requires_approval |-> TRUE, deduct_from_balance |-> TRUE,
          min_notice_days |-> 1, max_consecutive_days |-> 0]
    ELSE [requires_approval |-> FALSE, deduct_from_balance |-> FALSE,
          min_notice_days |-> 0, max_consecutive_days |-> 2]]

-----------------------------------------------------------------------------
(* Dates are day offsets from Sunday 2023-12-31: 0 is that Sunday, 1 is    *)
(* Monday 2024-01-01, 2 is Tuesday 2024-01-02, and so on.                  *)

Dates == 0..MaxDate

\* datetime.date.weekday(): Monday = 0 ... Sunday = 6
weekday(d) == (6 + d) % 7

\* datetime.date.year
year_of(d) == IF d = 0 THEN 2023 ELSE 2024

Years == {year_of(d) : d \in Dates}

\* calculate_working_days: counts the Monday-to-Friday dates of [start, end]
calculate_working_days(start_date, end_date) ==
    LET total_days == (end_date - start_date) + 1
    IN  Cardinality({i \in 0..(total_days - 1) : weekday(start_date + i) < 5})

-----------------------------------------------------------------------------
(* Text inputs.  forms.CharField strips surrounding whitespace.            *)

Texts == {"", " ", "text"}

strip(s) == IF s = " " THEN "" ELSE s

-----------------------------------------------------------------------------
(* Table helpers *)

\* the database a view reads and writes
DB == [requests |-> requests, approvals |-> approvals,
       balances |-> balances, debited |-> debited]

\* what a view returns: the database it leaves behind and its outcome
Outcome(db, result) == [db |-> db, result |-> result]

Pks(db) == 1..Len(db.requests)

\* LeaveRequest.save: total_days is computed only when it is empty (0)
LeaveRequest_save(leave) ==
    IF leave.total_days = 0
    THEN [leave EXCEPT !.total_days = (leave.end_date - leave.start_date) + 1]
    ELSE leave

\* the approver expression of leave_create_view / leave_update_view
route_approver(u) ==
    IF service[u] # NULL THEN service_manager[service[u]]
    ELSE IF department[u] # NULL THEN department_manager[department[u]]
    ELSE NULL

\* unique_together = ('leave_request', 'approval_level')
LeaveApproval_unique(rows, pk, level) ==
    \A a \in rows : ~(a.leave_request = pk /\ a.approval_level = level)

\* a LeaveApproval table without the unique constraint
LeaveApproval_can_insert_unconstrained(rows, pk, approver, level) ==
    approver # NULL

\* whether the database accepts INSERT INTO LeaveApproval: approver is a
\* NOT NULL column, and the unique constraint; otherwise IntegrityError
LeaveApproval_can_insert(rows, pk, approver, level) ==
    approver # NULL /\ LeaveApproval_unique(rows, pk, level)

\* the row LeaveApproval.objects.create(...) inserts (field defaults of the model)
LeaveApproval_row(rows, pk, approver, level) ==
    [id |-> Cardinality(rows) + 1, leave_request |-> pk, approver |-> approver,
     approval_level |-> level, status |-> "pending", comments |-> "",
     signed_at |-> FALSE, signed_by |-> NULL]

\* the submission tail shared by leave_create_view and leave_update_view:
\* LeaveApproval.objects.create(level 1) when the leave type requires approval
create_level1(db, pk, user, leave_type) ==
    IF ~LeaveType[leave_type].requires_approval
    THEN Outcome(db, "ok")
    ELSE IF LeaveApproval_can_insert(db.approvals, pk, route_approver(user), 1)
    THEN Outcome([db EXCEPT !.approvals = @ \cup
                    {LeaveApproval_row(db.approvals, pk, route_approver(user), 1)}],
                 "ok")
    ELSE Outcome(db, "IntegrityError")

\* LeaveBalance.objects.get_or_create(user, leave_type, year, defaults zero)
LeaveBalance_get_or_create(rows, user, leave_type, year) ==
    LET found == {b \in rows : b.user = user /\ b.leave_type = leave_type /\ b.year = year}
    IN  IF found # {}
        THEN CHOOSE b \in found : TRUE
        ELSE [user |-> user, leave_type |-> leave_type, year |-> year,
              entitled_days |-> 0, used_days |-> 0,
              pending_days |-> 0, carried_over_days |-> 0]

\* balance.save(): insert the row or update the row of the same key
LeaveBalance_save(rows, row) ==
    {b \in rows : ~(b.user = row.user /\ b.leave_type = row.leave_type
                    /\ b.year = row.year)} \cup {row}

\* a debit that ignores leave_type.deduct_from_balance
debit_balance_any_type(db, pk) ==
    LET leave == db.requests[pk]
        balance == LeaveBalance_get_or_create(db.balances, leave.user,
                                              leave.leave_type, year_of(leave.start_date))
    IN  [db EXCEPT
            !.balances = LeaveBalance_save(@,
                [balance EXCEPT !.used_days = @ + leave.working_days]),
            !.debited[pk] = @ + 1]

\* the debit of approval_action_view / bulk_approval_view:
\* if leave.leave_type.deduct_from_balance: used_days += leave.working_days
debit_balance(db, pk) ==
    LET leave == db.requests[pk]
        balance == LeaveBalance_get_or_create(db.balances, leave.user,
                                              leave.leave_type, year_of(leave.start_date))
    IN  IF LeaveType[leave.leave_type].deduct_from_balance
        THEN [db EXCEPT
                !.balances = LeaveBalance_save(@,
                    [balance EXCEPT !.used_days = @ + leave.working_days]),
                !.debited[pk] = @ + 1]
        ELSE db

-----------------------------------------------------------------------------
(* LeaveRequestForm.clean: the first validation error, or "valid" *)

\* an overlap query without the status filter
overlapping_leaves_any_status(db, user, instance, start_date, end_date) ==
    {p \in Pks(db) : /\ db.requests[p].user = user
                     /\ db.requests[p].start_date <= end_date
                     /\ db.requests[p].end_date >= start_date
                     /\ p # instance}

overlapping_leaves(db, user, instance, start_date, end_date) ==
    {p \in Pks(db) : /\ db.requests[p].user = user
                     /\ db.requests[p].status \in {"pending", "approved"}
                     /\ db.requests[p].start_date <= end_date
                     /\ db.requests[p].end_date >= start_date
                     /\ p # instance}

\* a notice check that also refuses the boundary start_date = today + n
notice_violation_boundary(leave_type, start_date) ==
    /\ LeaveType[leave_type].min_notice_days > 0
    /\ start_date <= today + LeaveType[leave_type].min_notice_days

notice_violation(leave_type, start_date) ==
    /\ LeaveType[leave_type].min_notice_days > 0
    /\ start_date < today + LeaveType[leave_type].min_notice_days

LeaveRequestForm_clean(db, user, instance, leave_type, start_date, end_date) ==
    LET lt == LeaveType[leave_type]
    IN  IF start_date > end_date THEN "date_order"
        ELSE IF notice_violation(leave_type, start_date) THEN "notice"
        ELSE IF lt.max_consecutive_days # 0
                /\ (end_date - start_date) + 1 > lt.max_consecutive_days
             THEN "max_consecutive"
        ELSE IF overlapping_leaves(db, user, instance, start_date, end_date) # {}
             THEN "overlap"
        ELSE "valid"

ValidationErrors == {"date_order", "notice", "max_consecutive", "overlap",
                     "comments_required", "reason_required", "invalid_choice"}

-----------------------------------------------------------------------------
(* Views of the leave requests *)

\* leave_create_view, POST.  save_draft: the 'save_draft' button was used.
\* The draft form is LeaveRequestDraftForm, which inherits clean unchanged.
leave_create_view(db, user, save_draft, leave_type, start_date, end_date) ==
    LET pk == Len(db.requests) + 1
        error == LeaveRequestForm_clean(db, user, 0, leave_type, start_date, end_date)
        fresh == [user |-> user, leave_type |-> leave_type,
                  start_date |-> start_date, end_date |-> end_date,
                  total_days |-> 0, working_days |-> 0,
                  status |-> "draft", current_approval_level |-> 1,
                  submitted_at |-> FALSE, approved_at |-> FALSE,
                  rejected_at |-> FALSE, cancelled_at |-> FALSE]
        pending == [fresh EXCEPT
                      !.status = "pending", !.submitted_at = TRUE,
                      !.total_days = (end_date - start_date) + 1,
                      !.working_days = calculate_working_days(start_date, end_date)]
        stored(leave) == [db EXCEPT !.requests = Append(@, LeaveRequest_save(leave)),
                                    !.debited = Append(@, 0)]
    IN  IF error # "valid" THEN Outcome(db, error)
        ELSE IF save_draft THEN Outcome(stored(fresh), "ok")
        ELSE create_level1(stored(pending), pk, user, leave_type)

\* leave_update_view, POST.  submit: 'submit' is in request.POST.
leave_update_view(db, user, pk, submit, leave_type, start_date, end_date) ==
    IF pk \notin Pks(db) \/ db.requests[pk].user # user THEN Outcome(db, "Http404")
    ELSE IF db.requests[pk].status \notin {"draft", "pending"} THEN Outcome(db, "refused")
    ELSE
    LET error == LeaveRequestForm_clean(db, user, pk, leave_type, start_date, end_date)
        saved == LeaveRequest_save([db.requests[pk] EXCEPT
                    !.leave_type = leave_type,
                    !.start_date = start_date, !.end_date = end_date])
        submitted == LeaveRequest_save([saved EXCEPT
                    !.status = "pending", !.submitted_at = TRUE])
    IN  IF error # "valid" THEN Outcome(db, error)
        ELSE IF saved.status = "draft" /\ submit
        THEN create_level1([db EXCEPT !.requests[pk] = submitted], pk, user, leave_type)
        ELSE Outcome([db EXCEPT !.requests[pk] = saved], "ok")

\* a cancel that gives the days of an approved request back to the balance
leave_cancel_view_recrediting(db, user, pk, reason) ==
    IF pk \notin Pks(db) \/ db.requests[pk].user # user THEN Outcome(db, "Http404")
    ELSE IF db.requests[pk].status \notin {"pending", "approved"} THEN Outcome(db, "refused")
    ELSE IF strip(reason) = "" THEN Outcome(db, "reason_required")
    ELSE LET leave == db.requests[pk]
             balance == LeaveBalance_get_or_create(db.balances, leave.user, leave.leave_type,
                                                   year_of(leave.start_date))
             credited == [balance EXCEPT !.used_days =
                             IF @ > leave.working_days THEN @ - leave.working_days ELSE 0]
         IN  Outcome([db EXCEPT
                        !.requests[pk] = LeaveRequest_save([@ EXCEPT !.status = "cancelled",
                                                                     !.cancelled_at = TRUE]),
                        !.balances = IF leave.status = "approved"
                                     THEN LeaveBalance_save(@, credited) ELSE @], "ok")

\* a cancel that does not look at the request's status
leave_cancel_view_any_status(db, user, pk, reason) ==
    IF pk \notin Pks(db) \/ db.requests[pk].user # user THEN Outcome(db, "Http404")
    ELSE IF strip(reason) = "" THEN Outcome(db, "reason_required")
    ELSE Outcome([db EXCEPT !.requests[pk] =
                    LeaveRequest_save([@ EXCEPT !.status = "cancelled",
                                                !.cancelled_at = TRUE])], "ok")

\* leave_cancel_view, POST
leave_cancel_view(db, user, pk, reason) ==
    IF pk \notin Pks(db) \/ db.requests[pk].user # user THEN Outcome(db, "Http404")
    ELSE IF db.requests[pk].status \notin {"pending", "approved"} THEN Outcome(db, "refused")
    ELSE IF strip(reason) = "" THEN Outcome(db, "reason_required")
    ELSE Outcome([db EXCEPT !.requests[pk] =
                    LeaveRequest_save([@ EXCEPT !.status = "cancelled",
                                                !.cancelled_at = TRUE])], "ok")

-----------------------------------------------------------------------------
(* Views of the approvals *)

\* a manager test that accepts every owner
manages_everyone(user, owner) == TRUE

\* the manager test of approval_action_view: the owner's service or
\* department is managed by the acting user
manages(user, owner) ==
    \/ service[owner] # NULL /\ service_manager[service[owner]] = user
    \/ department[owner] # NULL /\ department_manager[department[owner]] = user

\* LeaveApproval.objects.filter(leave_request, approver, status='pending')
pending_approvals(db, pk, user) ==
    {a \in db.approvals : a.leave_request = pk /\ a.approver = user /\ a.status = "pending"}

\* QuerySet.first(): the row of the smallest primary key
first(rows) == CHOOSE a \in rows : \A b \in rows : a.id <= b.id

\* Python's None where an approval row is expected (no row has id 0)
None == [id |-> 0, leave_request |-> 0, approver |-> NULL, approval_level |-> 0,
         status |-> "", comments |-> "", signed_at |-> FALSE, signed_by |-> NULL]

\* LeaveApproval.objects.get_or_create(leave_request, approver, defaults level 1):
\* the row found or inserted and the table afterwards; row None stands for
\* the IntegrityError of a refused insert
LeaveApproval_get_or_create(rows, pk, user) ==
    LET found == {a \in rows : a.leave_request = pk /\ a.approver = user}
    IN  IF found # {}
        THEN [row |-> first(found), rows |-> rows]
        ELSE IF LeaveApproval_can_insert(rows, pk, user, 1)
        THEN [row |-> LeaveApproval_row(rows, pk, user, 1),
              rows |-> rows \cup {LeaveApproval_row(rows, pk, user, 1)}]
        ELSE [row |-> None, rows |-> rows]

\* approval.save(): update the row of the same primary key
LeaveApproval_save(rows, row) == {a \in rows : a.id # row.id} \cup {row}

\* LeaveApprovalForm: the status choices of the model, and clean
LeaveApprovalForm_clean(status, comments) ==
    IF status \notin {"pending", "approved", "rejected"} THEN "invalid_choice"
    ELSE IF status = "rejected" /\ strip(comments) = "" THEN "comments_required"
    ELSE "valid"

\* a decide whose reject branch advances the level like an approval
decide_reject_advances(db, user, pk, approval, status, comments) ==
    LET signed == [approval EXCEPT !.status = status, !.comments = strip(comments),
                                   !.signed_at = TRUE, !.signed_by = user]
        db1 == [db EXCEPT !.approvals = LeaveApproval_save(@, signed)]
        leave == db.requests[pk]
    IN  IF status = "approved" /\ leave.current_approval_level >= 3
        THEN debit_balance(
               [db1 EXCEPT !.requests[pk] =
                   LeaveRequest_save([leave EXCEPT !.status = "approved",
                                                   !.approved_at = TRUE])], pk)
        ELSE IF status = "rejected" /\ leave.current_approval_level >= 3
        THEN [db1 EXCEPT !.requests[pk] =
                 LeaveRequest_save([leave EXCEPT !.status = "rejected",
                                                 !.rejected_at = TRUE])]
        ELSE IF status \in {"approved", "rejected"}
        THEN [db1 EXCEPT !.requests[pk] =
                 LeaveRequest_save([leave EXCEPT !.current_approval_level = @ + 1])]
        ELSE db1

\* a decide whose approval chain has four levels instead of three
decide_four_levels(db, user, pk, approval, status, comments) ==
    LET signed == [approval EXCEPT !.status = status, !.comments = strip(comments),
                                   !.signed_at = TRUE, !.signed_by = user]
        db1 == [db EXCEPT !.approvals = LeaveApproval_save(@, signed)]
        leave == db.requests[pk]
    IN  IF status = "approved"
        THEN IF leave.current_approval_level < 4
             THEN [db1 EXCEPT !.requests[pk] =
                      LeaveRequest_save([leave EXCEPT !.current_approval_level = @ + 1])]
             ELSE debit_balance(
                    [db1 EXCEPT !.requests[pk] =
                        LeaveRequest_save([leave EXCEPT !.status = "approved",
                                                        !.approved_at = TRUE])], pk)
        ELSE IF status = "rejected"
        THEN [db1 EXCEPT !.requests[pk] =
                 LeaveRequest_save([leave EXCEPT !.status = "rejected",
                                                 !.rejected_at = TRUE])]
        ELSE db1

\* approval_action_view lines 473-517: the valid POST on the approval found
decide(db, user, pk, approval, status, comments) ==
    LET signed == [approval EXCEPT !.status = status, !.comments = strip(comments),
                                   !.signed_at = TRUE, !.signed_by = user]
        db1 == [db EXCEPT !.approvals = LeaveApproval_save(@, signed)]
        leave == db.requests[pk]
    IN  IF status = "approved"
        THEN IF leave.current_approval_level < 3
             THEN [db1 EXCEPT !.requests[pk] =
                      LeaveRequest_save([leave EXCEPT !.current_approval_level = @ + 1])]
             ELSE debit_balance(
                    [db1 EXCEPT !.requests[pk] =
                        LeaveRequest_save([leave EXCEPT !.status = "approved",
                                                        !.approved_at = TRUE])], pk)
        ELSE IF status = "rejected"
        THEN [db1 EXCEPT !.requests[pk] =
                 LeaveRequest_save([leave EXCEPT !.status = "rejected",
                                                 !.rejected_at = TRUE])]
        ELSE db1

\* approval_action_view.  method: "GET" or "POST".
approval_action_view(db, user, pk, method, status, comments) ==
    IF pk \notin Pks(db) THEN Outcome(db, "Http404")
    ELSE
    LET own == pending_approvals(db, pk, user)
        as_manager == own = {} /\ is_manager(user) /\ manages(user, db.requests[pk].user)
        got == LeaveApproval_get_or_create(db.approvals, pk, user)
        approval == IF own # {} THEN first(own)
                    ELSE IF as_manager THEN got.row
                    ELSE None
        db0 == IF as_manager THEN [db EXCEPT !.approvals = got.rows] ELSE db
        error == LeaveApprovalForm_clean(status, comments)
    IN  IF as_manager /\ got.row = None THEN Outcome(db, "IntegrityError")
        ELSE IF approval = None THEN Outcome(db, "refused")
        ELSE IF method = "GET" THEN Outcome(db0, "form")
        ELSE IF error # "valid" THEN Outcome(db0, error)
        ELSE Outcome(decide(db0, user, pk, approval, status, comments), "ok")

\* BulkLeaveApprovalForm.__init__: the requests the approver may select
bulk_queryset(db, approver) ==
    {p \in Pks(db) : /\ db.requests[p].status = "pending"
                     /\ pending_approvals(db, p, approver) # {}}

\* BulkLeaveApprovalForm validation: ModelMultipleChoiceField (required; every
\* selected pk must be in the queryset) and the ChoiceField action
BulkLeaveApprovalForm_clean(db, approver, pks, action) ==
    IF pks = {} THEN "required"
    ELSE IF ~(pks \subseteq bulk_queryset(db, approver)) THEN "invalid_choice"
    ELSE IF action \notin {"approve", "reject"} THEN "invalid_choice"
    ELSE "valid"

\* bulk_approval_view lines 565-601: the body of the loop for one request
bulk_item(db, user, pk, action, comments) ==
    LET got == LeaveApproval_get_or_create(db.approvals, pk, user)
        signed == [got.row EXCEPT
                     !.status = action,
                     !.comments = IF action = "rejected" THEN strip(comments) ELSE "",
                     !.signed_at = TRUE, !.signed_by = user]
        db1 == [db EXCEPT !.approvals = LeaveApproval_save(got.rows, signed)]
        leave == db.requests[pk]
    IN  IF action = "approved"
        THEN [debit_balance([db1 EXCEPT !.requests[pk] =
                               [leave EXCEPT !.status = "approved", !.approved_at = TRUE]],
                            pk)
              EXCEPT !.requests[pk] = LeaveRequest_save(@)]
        ELSE [db1 EXCEPT !.requests[pk] =
                 LeaveRequest_save([leave EXCEPT !.status = "rejected",
                                                 !.rejected_at = TRUE])]

\* send_leave_notification for the request pk, where failing are the requests
\* whose notification cannot be made (Notification.objects.create,
\* render_to_string and user.profile are outside the try block, which covers
\* send_mail only): the exception leaves the function
send_leave_notification(pk, failing) ==
    IF pk \in failing THEN "raised" ELSE "sent"

\* the loop of bulk_approval_view over the selected requests, in the
\* queryset's order (Meta.ordering = ['-created_at']: newest first); the view
\* catches nothing, so a raised notification ends the loop after that
\* request's saves
RECURSIVE bulk_loop(_, _, _, _, _, _)
bulk_loop(db, user, pks, action, comments, failing) ==
    IF pks = {} THEN db
    ELSE LET pk == CHOOSE p \in pks : \A q \in pks : p >= q
             db1 == bulk_item(db, user, pk, action, comments)
         IN  IF send_leave_notification(pk, failing) = "raised" THEN db1
             ELSE bulk_loop(db1, user, pks \ {pk}, action, comments, failing)

\* bulk_approval_view, POST, behind manager_or_above_required
bulk_approval_view(db, user, pks, action, comments, failing) ==
    LET error == BulkLeaveApprovalForm_clean(db, user, pks, action)
    IN  IF ~is_manager(user) THEN Outcome(db, "refused")
        ELSE IF error # "valid" THEN Outcome(db, error)
        ELSE Outcome(bulk_loop(db, user, pks, action, comments, failing),
                     IF pks \cap failing = {} THEN "ok" ELSE "NotificationError")

-----------------------------------------------------------------------------
(* Balance ledger *)

AdjustmentTypes == {"add_entitled", "subtract_entitled", "add_used", "subtract_used",
                    "add_carried", "subtract_carried",
                    "set_entitled", "set_used", "set_carried"}

max(a, b) == IF a >= b THEN a ELSE b

\* an adjustment whose subtract variants do not clamp at zero
apply_adjustment_unclamped(balance, adjustment_type, amount) ==
    CASE adjustment_type = "add_entitled" ->
            [balance EXCEPT !.entitled_days = @ + amount]
      [] adjustment_type = "subtract_entitled" ->
            [balance EXCEPT !.entitled_days = @ - amount]
      [] adjustment_type = "add_used" ->
            [balance EXCEPT !.used_days = @ + amount]
      [] adjustment_type = "subtract_used" ->
            [balance EXCEPT !.used_days = @ - amount]
      [] adjustment_type = "add_carried" ->
            [balance EXCEPT !.carried_over_days = @ + amount]
      [] adjustment_type = "subtract_carried" ->
            [balance EXCEPT !.carried_over_days = @ - amount]
      [] adjustment_type = "set_entitled" ->
            [balance EXCEPT !.entitled_days = amount]
      [] adjustment_type = "set_used" ->
            [balance EXCEPT !.used_days = amount]
      [] adjustment_type = "set_carried" ->
            [balance EXCEPT !.carried_over_days = amount]
      [] OTHER -> balance

\* balance_adjust_view lines 840-858
apply_adjustment(balance, adjustment_type, amount) ==
    CASE adjustment_type = "add_entitled" ->
            [balance EXCEPT !.entitled_days = @ + amount]
      [] adjustment_type = "subtract_entitled" ->
            [balance EXCEPT !.entitled_days = max(0, @ - amount)]
      [] adjustment_type = "add_used" ->
            [balance EXCEPT !.used_days = @ + amount]
      [] adjustment_type = "subtract_used" ->
            [balance EXCEPT !.used_days = max(0, @ - amount)]
      [] adjustment_type = "add_carried" ->
            [balance EXCEPT !.carried_over_days = @ + amount]
      [] adjustment_type = "subtract_carried" ->
            [balance EXCEPT !.carried_over_days = max(0, @ - amount)]
      [] adjustment_type = "set_entitled" ->
            [balance EXCEPT !.entitled_days = amount]
      [] adjustment_type = "set_used" ->
            [balance EXCEPT !.used_days = amount]
      [] adjustment_type = "set_carried" ->
            [balance EXCEPT !.carried_over_days = amount]
      [] OTHER -> balance

\* the parameters of ActivityLog.log_action (it takes no **kwargs)
log_action_parameters ==
    {"user", "action_type", "module", "description", "content_object", "old_data",
     "new_data", "ip_address", "user_agent", "is_success", "error_message", "request"}

\* ActivityLog.log_action called with the keyword arguments kwargs: Python
\* raises TypeError on an unexpected keyword, before the body runs
log_action(kwargs) ==
    IF kwargs \subseteq log_action_parameters THEN "created" ELSE "TypeError"

\* the keyword arguments of the log_action call of balance_adjust_view
balance_adjust_log_kwargs ==
    {"user", "action_type", "module", "description", "details", "content_object", "request"}

\* the ActivityLog rows a valid POST of balance_adjust_view by actor creates
balance_adjust_log(actor, reason) ==
    IF log_action(balance_adjust_log_kwargs) = "created"
    THEN {[user |-> actor, module |-> "balance", reason |-> strip(reason)]}
    ELSE {}

\* a balance_adjust_view whose form has no min_value on amount
balance_adjust_view_any_amount(db, actor, user, leave_type, year, adjustment_type, amount, reason) ==
    IF ~(is_hr(actor) \/ is_admin(actor)) THEN Outcome(db, "refused")
    ELSE IF adjustment_type \notin AdjustmentTypes THEN Outcome(db, "invalid_choice")
    ELSE IF strip(reason) = "" THEN Outcome(db, "reason_required")
    ELSE Outcome([db EXCEPT !.balances = LeaveBalance_save(@,
                     apply_adjustment(
                        LeaveBalance_get_or_create(db.balances, user, leave_type, year),
                        adjustment_type, amount))],
                 IF log_action(balance_adjust_log_kwargs) = "created"
                 THEN "ok" ELSE "TypeError")

\* balance_adjust_view, POST, behind hr_or_admin_required.  The view saves the
\* balance and then calls ActivityLog.log_action(details=...), a keyword
\* log_action does not take: the request ends in TypeError after the save.
balance_adjust_view(db, actor, user, leave_type, year, adjustment_type, amount, reason) ==
    IF ~(is_hr(actor) \/ is_admin(actor)) THEN Outcome(db, "refused")
    ELSE IF adjustment_type \notin AdjustmentTypes \/ amount < 0 THEN Outcome(db, "invalid_choice")
    ELSE IF strip(reason) = "" THEN Outcome(db, "reason_required")
    ELSE Outcome([db EXCEPT !.balances = LeaveBalance_save(@,
                     apply_adjustment(
                        LeaveBalance_get_or_create(db.balances, user, leave_type, year),
                        adjustment_type, amount))],
                 IF log_action(balance_adjust_log_kwargs) = "created"
                 THEN "ok" ELSE "TypeError")

\* LeaveBalance.remaining_days
remaining_days(balance) ==
    balance.entitled_days + balance.carried_over_days
        - balance.used_days - balance.pending_days

\* Python's sum(b.<field> for b in rows)
RECURSIVE sum_field(_, _)
sum_field(rows, field) ==
    IF rows = {} THEN 0
    ELSE LET b == CHOOSE r \in rows : TRUE
         IN  b[field] + sum_field(rows \ {b}, field)

\* Python's sum(b.remaining_days for b in rows)
RECURSIVE sum_remaining(_)
sum_remaining(rows) ==
    IF rows = {} THEN 0
    ELSE LET b == CHOOSE r \in rows : TRUE
         IN  remaining_days(b) + sum_remaining(rows \ {b})

\* balance_view, GET: total_remaining of the user's rows of the current year
balance_view(db, user) ==
    Outcome(db, sum_remaining({b \in db.balances :
                                  b.user = user /\ b.year = year_of(today)}))

\* balance_management_view, GET, behind hr_or_admin_required: total_remaining
\* shown for the user among the listed users
balance_management_view(db, actor, user) ==
    LET rows == {b \in db.balances : b.user = user /\ b.year = year_of(today)}
        total_entitled == sum_field(rows, "entitled_days")
        total_used == sum_field(rows, "used_days")
    IN  IF ~(is_hr(actor) \/ is_admin(actor)) THEN Outcome(db, "refused")
        ELSE Outcome(db, total_entitled - total_used)

-----------------------------------------------------------------------------
(* The state machine.  A view's outcome (the HTTP response) is not kept in *)
(* the state: what a view answers in a state is read off the view operator. *)

\* the server's worker processes; a worker inside the final approval of
\* request pk holds the balance object it has read (its Python variable)
Workers == {"w1", "w2"}

\* a worker with no request in progress
Idle == [pc |-> "idle", pk |-> 0,
         balance |-> [user |-> NULL, leave_type |-> NULL, year |-> 0,
                      entitled_days |-> 0, used_days |-> 0,
                      pending_days |-> 0, carried_over_days |-> 0]]

Init ==
    /\ requests = <<>>
    /\ approvals = {}
    /\ balances = {}
    /\ debited = <<>>
    /\ today = 0
    /\ workers = [w \in Workers |-> Idle]

\* the tables and counters stay within the bounds of the model
within_cap(db, cap) ==
    /\ Len(db.requests) <= cap
    /\ \A b \in db.balances : /\ b.entitled_days <= MaxDays
                              /\ b.used_days <= MaxDays
                              /\ b.carried_over_days <= MaxDays
    /\ \A p \in Pks(db) : db.debited[p] <= MaxDebits

\* the database a view leaves behind becomes the state
Commit(db) ==
    /\ requests' = db.requests
    /\ approvals' = db.approvals
    /\ balances' = db.balances
    /\ debited' = db.debited
    /\ UNCHANGED <<today, workers>>

\* the users who file leave requests
Requesters == {"emp1", "emp2"}

\* the primary keys a URL may name
AllPks == 1..MaxReq

\* what the approval form can send: GET, or POST of a status and comments
Decisions == {<<"GET", "pending", "">>}
             \cup ({"POST"} \X {"pending", "approved", "rejected"} \X Texts)

LeaveCreate ==
    \E u \in Requesters, d \in BOOLEAN, t \in LeaveTypes, s \in Dates, e \in Dates :
        LET out == leave_create_view(DB, u, d, t, s, e)
        IN  /\ within_cap(out.db, MaxReq)
            /\ Commit(out.db)

LeaveUpdate ==
    \E u \in Requesters, pk \in AllPks, b \in BOOLEAN,
       t \in LeaveTypes, s \in Dates, e \in Dates :
        LET out == leave_update_view(DB, u, pk, b, t, s, e)
        IN  /\ within_cap(out.db, MaxReq)
            /\ Commit(out.db)

LeaveCancel ==
    \E u \in Requesters, pk \in AllPks, reason \in Texts :
        LET out == leave_cancel_view(DB, u, pk, reason)
        IN  /\ within_cap(out.db, MaxReq)
            /\ Commit(out.db)

ApprovalAction ==
    \E u \in Users, pk \in AllPks, d \in Decisions :
        LET out == approval_action_view(DB, u, pk, d[1], d[2], d[3])
        IN  /\ within_cap(out.db, MaxReq)
            /\ Commit(out.db)

BulkApproval ==
    \E u \in Users, pks \in SUBSET AllPks, action \in {"approve", "reject"},
       comments \in Texts, failing \in SUBSET AllPks :
        LET out == bulk_approval_view(DB, u, pks, action, comments, failing)
        IN  /\ within_cap(out.db, MaxReq)
            /\ Commit(out.db)

\* the calendar moves on
AdvanceDay ==
    /\ today < MaxToday
    /\ today' = today + 1
    /\ UNCHANGED <<requests, approvals, balances, debited, workers>>

Next ==
    \/ LeaveCreate
    \/ LeaveUpdate
    \/ LeaveCancel
    \/ ApprovalAction
    \/ BulkApproval
    \/ AdvanceDay

Spec == Init /\ [][Next]_vars

-----------------------------------------------------------------------------
(* Two requests side by side.  The same views, with the inputs narrowed to  *)
(* what two requests need to meet: paid leave filed on day 0, updates sent  *)
(* with submit, single decisions posted by the service manager with a       *)
(* comment on the first request, bulk decisions by the service manager.     *)

PairPks == 1..MaxPair

PairCreate ==
    \E u \in Requesters, d \in BOOLEAN, s \in Dates, e \in Dates :
        LET out == leave_create_view(DB, u, d, "paid", s, e)
        IN  /\ within_cap(out.db, MaxPair)
            /\ Commit(out.db)

PairSubmit ==
    \E u \in Requesters, pk \in PairPks, s \in Dates, e \in Dates :
        LET out == leave_update_view(DB, u, pk, TRUE, "paid", s, e)
        IN  /\ within_cap(out.db, MaxPair)
            /\ Commit(out.db)

PairCancel ==
    \E u \in Requesters, pk \in PairPks :
        LET out == leave_cancel_view(DB, u, pk, "text")
        IN  /\ within_cap(out.db, MaxPair)
            /\ Commit(out.db)

PairDecide ==
    \E pk \in {1}, status \in {"approved", "rejected"} :
        LET out == approval_action_view(DB, "mgr1", pk, "POST", status, "text")
        IN  /\ within_cap(out.db, MaxPair)
            /\ Commit(out.db)

PairBulk ==
    \E pks \in SUBSET PairPks, action \in {"approve", "reject"},
       failing \in SUBSET PairPks :
        LET out == bulk_approval_view(DB, "mgr1", pks, action, "text", failing)
        IN  /\ within_cap(out.db, MaxPair)
            /\ Commit(out.db)

NextPair ==
    \/ PairCreate
    \/ PairSubmit
    \/ PairCancel
    \/ PairDecide
    \/ PairBulk

SpecPair == Init /\ [][NextPair]_vars

-----------------------------------------------------------------------------
(* Final approvals on two workers.  approval_action_view runs outside any   *)
(* transaction and without row locks, so the final approval of a request is *)
(* two database steps another worker can run between: the read of the       *)
(* balance row (get_or_create, after the approval and the request were      *)
(* saved), and balance.save() of the row object with used_days added in     *)
(* Python.  A decision that is not a final approval touches no balance and  *)
(* is taken as one step.                                                    *)

\* approval_action_view lines 473-502, for a valid POST of approved at level
\* 3: the approval and the request are saved, the balance row is read, and
\* inserted with zero counters when it is missing
final_approval_read(db, user, pk) ==
    LET own == pending_approvals(db, pk, user)
        got == LeaveApproval_get_or_create(db.approvals, pk, user)
        approval == IF own # {} THEN first(own) ELSE got.row
        signed == [approval EXCEPT !.status = "approved", !.comments = "",
                                   !.signed_at = TRUE, !.signed_by = user]
        leave == db.requests[pk]
        balance == LeaveBalance_get_or_create(db.balances, leave.user, leave.leave_type,
                                              year_of(leave.start_date))
    IN  [db |-> [db EXCEPT !.approvals = LeaveApproval_save(got.rows, signed),
                           !.requests[pk] =
                               LeaveRequest_save([leave EXCEPT !.status = "approved",
                                                               !.approved_at = TRUE]),
                           !.balances = LeaveBalance_save(@, balance)],
         balance |-> balance]

\* approval_action_view lines 503-504: balance.used_days += leave.working_days
\* on the object read earlier, then balance.save(), which writes every column
final_approval_write(db, pk, balance) ==
    [db EXCEPT !.balances = LeaveBalance_save(@,
                   [balance EXCEPT !.used_days = @ + db.requests[pk].working_days]),
               !.debited[pk] = @ + 1]

RaceCreate ==
    \E s \in Dates, e \in Dates :
        LET out == leave_create_view(DB, "emp1", FALSE, "paid", s, e)
        IN  /\ within_cap(out.db, MaxPair)
            /\ Commit(out.db)

RaceDecide ==
    \E pk \in PairPks, status \in {"approved", "rejected"} :
        LET out == approval_action_view(DB, "mgr1", pk, "POST", status, "text")
        IN  /\ pk \in Pks(DB)
            /\ requests[pk].status = "pending"
            /\ status = "rejected" \/ requests[pk].current_approval_level < 3
            /\ \A w \in Workers : workers[w].pk # pk
            /\ within_cap(out.db, MaxPair)
            /\ Commit(out.db)

RaceFinalRead ==
    \E w \in Workers, pk \in PairPks :
        /\ workers[w] = Idle
        /\ pk \in Pks(DB)
        /\ requests[pk].status = "pending"
        /\ requests[pk].current_approval_level = 3
        /\ LeaveType[requests[pk].leave_type].deduct_from_balance
        /\ LET step == final_approval_read(DB, "mgr1", pk)
           IN  /\ requests' = step.db.requests
               /\ approvals' = step.db.approvals
               /\ balances' = step.db.balances
               /\ workers' = [workers EXCEPT ![w] =
                                 [pc |-> "read", pk |-> pk, balance |-> step.balance]]
        /\ UNCHANGED <<debited, today>>

RaceFinalWrite ==
    \E w \in Workers :
        /\ workers[w].pc = "read"
        /\ LET db == final_approval_write(DB, workers[w].pk, workers[w].balance)
           IN  /\ within_cap(db, MaxPair)
               /\ balances' = db.balances
               /\ debited' = db.debited
        /\ workers' = [workers EXCEPT ![w] = Idle]
        /\ UNCHANGED <<requests, approvals, today>>

NextRace ==
    \/ RaceCreate
    \/ RaceDecide
    \/ RaceFinalRead
    \/ RaceFinalWrite

SpecRace == Init /\ [][NextRace]_vars

-----------------------------------------------------------------------------
(* The balance ledger: HR adjusts the balances of one employee, whose       *)
(* request is approved level by level and debited, and the calendar moves   *)
(* from 2023 into 2024.                                                     *)

Amounts == 0..MaxAmount

\* the amounts HR posts: the form's DecimalField also receives negative ones
PostedAmounts == {-1} \cup Amounts

BalanceAdjust ==
    \E t \in LeaveTypes, k \in AdjustmentTypes, amount \in PostedAmounts,
       reason \in Texts :
        LET out == balance_adjust_view(DB, "hr1", "emp1", t, 2024, k, amount, reason)
        IN  /\ within_cap(out.db, MaxReq)
            /\ Commit(out.db)

LedgerCreate ==
    \E t \in LeaveTypes, e \in Dates :
        LET out == leave_create_view(DB, "emp1", FALSE, t, 1, e)
        IN  /\ within_cap(out.db, MaxReq)
            /\ Commit(out.db)

LedgerDecide ==
    \E pk \in AllPks :
        LET out == approval_action_view(DB, "mgr1", pk, "POST", "approved", "text")
        IN  /\ within_cap(out.db, MaxReq)
            /\ Commit(out.db)

NextLedger ==
    \/ BalanceAdjust
    \/ LedgerCreate
    \/ LedgerDecide
    \/ AdvanceDay

SpecLedger == Init /\ [][NextLedger]_vars

-----------------------------------------------------------------------------
(* The approval chain: employees of three services submit requests and the  *)
(* approver each request was routed to keeps posting approve decisions for  *)
(* it.  emp1's approver mgr1 has the manager role, emp3's approver lead3    *)
(* has the employee role, and lead3 manages the service lead3 belongs to.   *)

ChainRequesters == {"emp1", "emp3", "lead3"}

\* the level-1 approvers the submission assigned to request pk
designated_approvers(db, pk) ==
    {a.approver : a \in {b \in db.approvals : b.leave_request = pk
                                              /\ b.approval_level = 1}}

ChainCreate ==
    \E u \in ChainRequesters, sd \in Dates, ed \in Dates :
        LET out == leave_create_view(DB, u, FALSE, "paid", sd, ed)
        IN  /\ within_cap(out.db, MaxPair)
            /\ Commit(out.db)

ChainApprove(pk) ==
    \E u \in designated_approvers(DB, pk) :
        LET out == approval_action_view(DB, u, pk, "POST", "approved", "text")
        IN  /\ pk \in Pks(DB)
            /\ requests[pk].status = "pending"
            /\ within_cap(out.db, MaxPair)
            /\ Commit(out.db)

NextChain ==
    \/ ChainCreate
    \/ \E pk \in PairPks : ChainApprove(pk)

\* the approver does post: an approve decision that would change the
\* database is eventually taken
SpecChain ==
    Init /\ [][NextChain]_vars /\ \A pk \in PairPks : WF_vars(ChainApprove(pk))

-----------------------------------------------------------------------------
(* Claims *)

\* C1: the working days of a request whose leave type deducts from balance
\* are added to the owner's used_days at most once, whatever decisions,
\* cancels and updates follow.
C1_DebitedAtMostOnce ==
    \A p \in Pks(DB) :
        LeaveType[requests[p].leave_type].deduct_from_balance => debited[p] <= 1

\* the approval rows of one request
approvals_of(rows, pk) == {a \in rows : a.leave_request = pk}

\* C2: an accepted reject decision on a pending request, at any approval
\* level, marks the request rejected with rejected_at and changes nothing else
\* of it (the level stays), marks the decided approval rejected, signed by the
\* actor, keeps it the only approval of the request, and debits no balance;
\* the pending approval's own approver is always accepted when the comment is
\* not empty.
C2_RejectFinalizes ==
    \A u \in Users, pk \in Pks(DB), c \in Texts :
        LET out == approval_action_view(DB, u, pk, "POST", "rejected", c)
        IN  requests[pk].status = "pending" =>
            /\ (pending_approvals(DB, pk, u) # {} /\ strip(c) # "") => out.result = "ok"
            /\ out.result = "ok" =>
                 /\ strip(c) # ""
                 /\ out.db.requests[pk] = [requests[pk] EXCEPT !.status = "rejected",
                                                               !.rejected_at = TRUE]
                 /\ out.db.requests[pk].current_approval_level
                        = requests[pk].current_approval_level
                 /\ \E a \in out.db.approvals :
                        /\ approvals_of(out.db.approvals, pk) = {a}
                        /\ a.status = "rejected" /\ a.comments = strip(c)
                        /\ a.signed_at /\ a.signed_by = u
                 /\ out.db.approvals \ approvals_of(out.db.approvals, pk)
                        = approvals \ approvals_of(approvals, pk)
                 /\ out.db.balances = balances
                 /\ out.db.debited = debited

\* C2 witness: a request rejected at level 3 by a signed, commented approval
C2_Witness ==
    \E pk \in Pks(DB), a \in approvals :
        /\ requests[pk].status = "rejected" /\ requests[pk].rejected_at
        /\ requests[pk].current_approval_level = 3
        /\ ~requests[pk].approved_at /\ ~requests[pk].cancelled_at
        /\ a.leave_request = pk /\ a.status = "rejected" /\ a.comments # ""
        /\ a.signed_at /\ a.signed_by = a.approver

\* C3: no two approval rows share (leave request, approval level); an insert
\* attempted where the level-1 row exists returns that row or fails and
\* leaves the table as it was.
C3_UniqueApprovalPerLevel ==
    /\ \A a, b \in approvals :
          (a.leave_request = b.leave_request /\ a.approval_level = b.approval_level)
              => a = b
    /\ \A pk \in Pks(DB), u \in Users :
          LET got == LeaveApproval_get_or_create(approvals, pk, u)
          IN  (\E a \in approvals : a.leave_request = pk /\ a.approval_level = 1)
                 => /\ got.rows = approvals
                    /\ got.row = None \/ got.row \in approvals

\* C3 witness: a level-1 approval of one approver exists while another
\* manager of the owner's unit attempts a decision, which the database refuses
C3_Witness ==
    \E pk \in Pks(DB), a \in approvals, u \in Users :
        /\ a.leave_request = pk /\ a.approval_level = 1 /\ a.approver # u
        /\ is_manager(u) /\ manages(u, requests[pk].user)
        /\ approval_action_view(DB, u, pk, "POST", "approved", "").result = "IntegrityError"
        /\ a.signed_by # NULL

\* C5: bulk decide on one request leaves the database as the single decide
\* with the same decision by the same approver does.
C5_BulkEqualsSingle ==
    \A u \in Users, pk \in Pks(DB), c \in Texts :
        (is_manager(u) /\ pk \in bulk_queryset(DB, u)) =>
            /\ bulk_approval_view(DB, u, {pk}, "approve", c, {}).db
                 = approval_action_view(DB, u, pk, "POST", "approved", c).db
            /\ strip(c) # "" =>
                 bulk_approval_view(DB, u, {pk}, "reject", c, {}).db
                    = approval_action_view(DB, u, pk, "POST", "rejected", c).db

\* C6: a request that is cancelled, approved or rejected keeps its status,
\* except that an approved request may become cancelled.
C6_FinalStatusKept ==
    [][\A p \in Pks(DB) :
          requests[p].status \in {"cancelled", "approved", "rejected"} =>
             \/ requests'[p].status = requests[p].status
             \/ requests[p].status = "approved" /\ requests'[p].status = "cancelled"]_vars

\* C7: every stored request has total_days = (end_date - start_date) + 1
C7_TotalDays ==
    \A p \in Pks(DB) :
        requests[p].total_days = (requests[p].end_date - requests[p].start_date) + 1

\* C9: with min_notice_days = n > 0, creating or updating a request (as a
\* draft or as a submission) with start_date < today + n is refused with a
\* validation error and stores nothing; with start_date >= today + n it is
\* never refused for the notice.
C9_NoticePeriod ==
    \A u \in Requesters, b \in BOOLEAN, t \in LeaveTypes, s \in Dates, e \in Dates :
        LET n == LeaveType[t].min_notice_days
            created == leave_create_view(DB, u, b, t, s, e)
        IN  n > 0 =>
            /\ s < today + n => created.result \in ValidationErrors /\ created.db = DB
            /\ s >= today + n => created.result # "notice"
            /\ \A pk \in Pks(DB) :
                  LET updated == leave_update_view(DB, u, pk, b, t, s, e)
                  IN  (requests[pk].user = u /\ requests[pk].status \in {"draft", "pending"})
                      => /\ s < today + n =>
                               updated.result \in ValidationErrors /\ updated.db = DB
                         /\ s >= today + n => updated.result # "notice"

\* C9 witness: a request submitted with start_date exactly today + n is
\* stored, while the same submission one day earlier is refused for the notice
C9_Witness ==
    \E pk \in Pks(DB) :
        LET n == LeaveType[requests[pk].leave_type].min_notice_days
        IN  /\ n > 0
            /\ requests[pk].status = "pending"
            /\ requests[pk].start_date = today + n
            /\ leave_create_view(DB, "emp2", FALSE, requests[pk].leave_type,
                                 today + n - 1, today + n).result = "notice"

\* C4: a bulk decision over a set of requests, some of which are not pending
\* requests with a pending approval of the acting manager, is still applied to
\* every request of the set the manager is authorized for.
C4_BulkAppliesToAuthorized ==
    \A u \in Users, pks \in SUBSET Pks(DB), action \in {"approve", "reject"} :
        LET out == bulk_approval_view(DB, u, pks, action, "text", {})
        IN  is_manager(u) =>
               \A p \in pks \cap bulk_queryset(DB, u) :
                   /\ out.db.requests[p].status # "pending"
                   /\ pending_approvals(out.db, p, u) = {}

\* C8: a submission (create as pending, or submit of a draft) for [s, e] is
\* refused with a validation error and changes nothing whenever the same user
\* has another pending or approved request with start_date <= e and
\* end_date >= s; without such a request it is never refused for overlap,
\* whatever drafts, rejected or cancelled requests and requests of other
\* users exist.
C8_OverlapRefused ==
    \A u \in Requesters, t \in LeaveTypes, s \in Dates, e \in Dates :
        LET clash(instance) ==
                \E p \in Pks(DB) :
                    /\ p # instance
                    /\ requests[p].user = u
                    /\ requests[p].status \in {"pending", "approved"}
                    /\ requests[p].start_date <= e
                    /\ requests[p].end_date >= s
            created == leave_create_view(DB, u, FALSE, t, s, e)
        IN  /\ clash(0) => created.result \in ValidationErrors /\ created.db = DB
            /\ ~clash(0) => created.result # "overlap"
            /\ \A pk \in Pks(DB) :
                  LET submitted == leave_update_view(DB, u, pk, TRUE, t, s, e)
                  IN  (requests[pk].user = u /\ requests[pk].status = "draft") =>
                         /\ clash(pk) => /\ submitted.result \in ValidationErrors
                                         /\ submitted.db = DB
                         /\ ~clash(pk) => submitted.result # "overlap"

\* C8 witness: a user holds a draft inside the dates of an own approved
\* request, whose submission is refused for overlap, next to which a
\* submission for the free day is accepted
C8_Witness ==
    \E p \in Pks(DB), q \in Pks(DB) :
        /\ requests[p].user = requests[q].user
        /\ requests[p].status = "approved" /\ requests[q].status = "draft"
        /\ requests[p].start_date = requests[p].end_date
        /\ requests[q].start_date < requests[q].end_date
        /\ leave_update_view(DB, requests[q].user, q, TRUE, "paid",
                             requests[q].start_date, requests[q].end_date).result = "overlap"
        /\ \E d \in Dates :
              leave_update_view(DB, requests[q].user, q, TRUE, "paid", d, d).result = "ok"

\* C10: an adjustment of a balance by HR stores exactly the reference result:
\* add_X gives X + amount, subtract_X gives max(0, X - amount), set_X gives
\* amount, for X among entitled, used and carried; the other counters and
\* pending_days of the row and every other row are unchanged; a missing row
\* starts from zero counters.
C10_AdjustReference ==
    \A t \in LeaveTypes, y \in Years, k \in AdjustmentTypes, amount \in Amounts :
        LET out == balance_adjust_view(DB, "hr1", "emp1", t, y, k, amount, "text")
            key(b) == <<b.user, b.leave_type, b.year>>
            rows == {b \in balances : key(b) = <<"emp1", t, y>>}
            old == IF rows = {}
                   THEN [user |-> "emp1", leave_type |-> t, year |-> y,
                         entitled_days |-> 0, used_days |-> 0,
                         pending_days |-> 0, carried_over_days |-> 0]
                   ELSE CHOOSE b \in rows : TRUE
            field == CASE k \in {"add_entitled", "subtract_entitled", "set_entitled"}
                            -> "entitled_days"
                       [] k \in {"add_used", "subtract_used", "set_used"} -> "used_days"
                       [] OTHER -> "carried_over_days"
            value == CASE k \in {"add_entitled", "add_used", "add_carried"}
                            -> old[field] + amount
                       [] k \in {"subtract_entitled", "subtract_used", "subtract_carried"}
                            -> IF old[field] > amount THEN old[field] - amount ELSE 0
                       [] OTHER -> amount
        IN  /\ Cardinality(rows) <= 1
            /\ \E new \in out.db.balances :
                  /\ key(new) = key(old)
                  /\ new[field] = value
                  /\ \A f \in {"entitled_days", "used_days", "pending_days",
                               "carried_over_days"} \ {field} : new[f] = old[f]
                  /\ out.db.balances \ {new} = balances \ rows
            /\ out.db.requests = requests
            /\ out.db.approvals = approvals

\* C10 witness: a stored balance whose used_days is smaller than an amount
\* that can be subtracted, next to a second row of the same employee
C10_Witness ==
    \E b \in balances, c \in balances :
        /\ b # c
        /\ b.used_days = 1 /\ b.entitled_days = MaxDays /\ b.carried_over_days > 0
        /\ c.pending_days = 0
        /\ \E new \in balance_adjust_view(DB, "hr1", "emp1", b.leave_type, b.year,
                                          "subtract_used", MaxAmount, "text").db.balances :
              new.leave_type = b.leave_type /\ new.used_days = 0

\* C11: cancel makes a request cancelled and sets cancelled_at, and changes
\* nothing else, when the owner sends a non-empty reason for a pending or
\* approved request; for any other user, status or an empty reason it leaves
\* the database unchanged.
C11_CancelOnlyByOwner ==
    \A u \in Users, pk \in Pks(DB), reason \in Texts :
        LET out == leave_cancel_view(DB, u, pk, reason)
            allowed == /\ u = requests[pk].user
                       /\ reason \notin {"", " "}
                       /\ requests[pk].status \in {"pending", "approved"}
        IN  IF allowed
            THEN out.db = [DB EXCEPT !.requests[pk].status = "cancelled",
                                     !.requests[pk].cancelled_at = TRUE]
            ELSE out.db = DB

\* C11 witness: an approved request was cancelled by its owner and a further
\* cancel of it is refused
C11_Witness ==
    \E pk \in Pks(DB) :
        /\ requests[pk].status = "cancelled" /\ requests[pk].cancelled_at
        /\ requests[pk].approved_at
        /\ leave_cancel_view(DB, requests[pk].user, pk, "text").result = "refused"

\* C12: a decide attempt, GET or POST, by a user who neither holds a pending
\* approval of the request nor is a manager-capable user managing the owner's
\* service or department is refused and changes no request, no approval (none
\* is created) and no balance.
C12_UnauthorizedDecideRefused ==
    \A u \in Users, pk \in Pks(DB), d \in Decisions :
        LET out == approval_action_view(DB, u, pk, d[1], d[2], d[3])
            owner == requests[pk].user
            holds_pending == \E a \in approvals :
                                a.leave_request = pk /\ a.approver = u /\ a.status = "pending"
            capable == role[u] \in {"manager", "admin", "hr"} \/ is_approver[u]
            unit_manager ==
                \/ service[owner] # NULL /\ service_manager[service[owner]] = u
                \/ department[owner] # NULL /\ department_manager[department[owner]] = u
        IN  (~holds_pending /\ ~(capable /\ unit_manager)) =>
                /\ out.result = "refused"
                /\ out.db = DB

\* C12 witness: a pending request without any approval row, which its unit's
\* manager may decide, and which an HR user managing no unit is refused
C12_Witness ==
    \E pk \in Pks(DB) :
        /\ requests[pk].status = "pending"
        /\ approvals_of(approvals, pk) = {}
        /\ approval_action_view(DB, "mgr1", pk, "POST", "approved", "").result = "ok"
        /\ approval_action_view(DB, "hr1", pk, "POST", "approved", "").result = "refused"

\* C13: every balance adjustment that saves a balance row comes with exactly
\* one activity-log record naming the acting HR user and the stated reason.
C13_AdjustmentAudited ==
    \A t \in LeaveTypes, y \in Years, k \in AdjustmentTypes, amount \in Amounts,
       reason \in Texts :
        LET out == balance_adjust_view(DB, "hr1", "emp1", t, y, k, amount, reason)
            logged == balance_adjust_log("hr1", reason)
        IN  out.db.balances # balances =>
               /\ Cardinality(logged) = 1
               /\ \A r \in logged : r.user = "hr1" /\ r.reason = strip(reason)

\* the working days debited so far for the requests pks on the balance row b
RECURSIVE debits_of(_, _)
debits_of(b, pks) ==
    IF pks = {} THEN 0
    ELSE LET p == CHOOSE q \in pks : TRUE
             mine == /\ requests[p].user = b.user
                     /\ requests[p].leave_type = b.leave_type
                     /\ year_of(requests[p].start_date) = b.year
         IN  (IF mine THEN debited[p] * requests[p].working_days ELSE 0)
             + debits_of(b, pks \ {p})

\* C14: when final approvals of different requests on the same balance row
\* have run on two workers with their read and write steps interleaved, the
\* row's used_days is the initial 0 plus the working days of every request
\* debited: no debit is lost.
C14_NoLostDebit ==
    (\A w \in Workers : workers[w] = Idle) =>
        \A b \in balances : b.used_days = debits_of(b, Pks(DB))

\* C15: a notification that cannot be made never blocks a state change: a
\* bulk decision leaves the database as it does when every notification is
\* made, whichever notifications of the batch fail.
C15_NotificationFailureHarmless ==
    \A u \in Users, pks \in SUBSET Pks(DB), action \in {"approve", "reject"},
       failing \in SUBSET Pks(DB) :
        bulk_approval_view(DB, u, pks, action, "text", failing).db
            = bulk_approval_view(DB, u, pks, action, "text", {}).db

\* C16: of the leave operations only the final approval of a request changes
\* a balance: a step that changes the balance table is an approve decision
\* taken at level 3 on a request whose type deducts from balance, it changes
\* used_days of the owner's row alone, and saving a draft, submitting,
\* editing, rejecting, approving below level 3 and cancelling (an approved and
\* debited request too) leave every counter of every row as it was.
C16_BalanceFrame ==
    [][balances' # balances =>
          \E pk \in Pks(DB) :
              /\ requests[pk].current_approval_level = 3
              /\ requests'[pk] = [requests[pk] EXCEPT !.status = "approved",
                                                      !.approved_at = TRUE]
              /\ LeaveType[requests[pk].leave_type].deduct_from_balance
              /\ debited'[pk] = debited[pk] + 1
              /\ \E a \in approvals' :
                    a.leave_request = pk /\ a.status = "approved" /\ a.signed_at
              /\ LET old == LeaveBalance_get_or_create(
                                balances, requests[pk].user, requests[pk].leave_type,
                                year_of(requests[pk].start_date))
                 IN  /\ balances' \ balances
                            = {[old EXCEPT !.used_days = @ + requests[pk].working_days]}
                     /\ balances \ balances' \subseteq {old}]_vars

\* C16 witness: an approved and debited request was cancelled by its owner and
\* the debit is still on the balance
C16_Witness ==
    \E pk \in Pks(DB), b \in balances :
        /\ requests[pk].status = "cancelled" /\ requests[pk].cancelled_at
        /\ requests[pk].approved_at
        /\ requests[pk].working_days > 0
        /\ debited[pk] = 1
        /\ b.user = requests[pk].user /\ b.leave_type = requests[pk].leave_type
        /\ b.used_days = requests[pk].working_days

\* C17: every remaining-days figure equals entitled_days + carried_over_days
\* - used_days - pending_days of the current counters, summed over the user's
\* rows of the current year for the totals of the user's balance page and of
\* the HR balance-management page, and reading it changes no state.
C17_RemainingDays ==
    LET rows == {b \in balances : b.user = "emp1" /\ b.year = year_of(today)}
        figure(b) == b.entitled_days + b.carried_over_days - b.used_days - b.pending_days
        total == sum_field(rows, "entitled_days") + sum_field(rows, "carried_over_days")
                    - sum_field(rows, "used_days") - sum_field(rows, "pending_days")
    IN  /\ \A b \in balances : remaining_days(b) = figure(b)
        /\ balance_view(DB, "emp1") = Outcome(DB, total)
        /\ balance_management_view(DB, "hr1", "emp1") = Outcome(DB, total)

\* C18: a decide takes effect only on a pending approval: a POST by a user
\* whose approval record of the request is already approved or rejected, and
\* who holds no pending one, is refused and changes no approval, no request
\* and no balance.
C18_DecidedApprovalFinal ==
    \A u \in Users, pk \in Pks(DB), status \in {"approved", "rejected"}, c \in Texts :
        LET out == approval_action_view(DB, u, pk, "POST", status, c)
            decided == {a \in approvals : /\ a.leave_request = pk /\ a.approver = u
                                          /\ a.status \in {"approved", "rejected"}}
        IN  (decided # {} /\ pending_approvals(DB, pk, u) = {}) =>
                /\ out.result = "refused"
                /\ out.db = DB

\* C19: every manager-capable user who manages the owner's service or
\* department can decide a pending request, whether or not a level-1 approval
\* of another approver exists: the decision is recorded under the user's name
\* and the request is advanced, approved or rejected, without integrity error.
C19_UnitManagerCanDecide ==
    \A u \in Users, pk \in Pks(DB), status \in {"approved", "rejected"} :
        LET out == approval_action_view(DB, u, pk, "POST", status, "text")
            owner == requests[pk].user
            capable == role[u] \in {"manager", "admin", "hr"} \/ is_approver[u]
            unit_manager ==
                \/ service[owner] # NULL /\ service_manager[service[owner]] = u
                \/ department[owner] # NULL /\ department_manager[department[owner]] = u
        IN  (requests[pk].status = "pending" /\ capable /\ unit_manager) =>
                /\ out.result = "ok"
                /\ out.db.requests[pk] # requests[pk]
                /\ \E a \in out.db.approvals :
                      /\ a.leave_request = pk /\ a.status = status
                      /\ a.signed_at /\ a.signed_by = u

\* C20: a submission, by create-as-pending or by submit of a draft, of a
\* request whose leave type requires approval creates the level-1 approval
\* for the owner's service manager, or for the department manager when the
\* service has none.
C20_ApproverRouting ==
    \A u \in Requesters, t \in LeaveTypes, s \in Dates, e \in Dates :
        LET expected ==
                IF service[u] # NULL /\ service_manager[service[u]] # NULL
                THEN service_manager[service[u]]
                ELSE IF department[u] # NULL THEN department_manager[department[u]]
                ELSE NULL
            routed(out, pk) ==
                (out.result \notin ValidationErrors
                   /\ LeaveType[t].requires_approval
                   /\ expected # NULL) =>
                      \E a \in out.db.approvals :
                          /\ a.leave_request = pk /\ a.approval_level = 1
                          /\ a.approver = expected
        IN  /\ routed(leave_create_view(DB, u, FALSE, t, s, e), Len(requests) + 1)
            /\ \A pk \in Pks(DB) :
                  (requests[pk].user = u /\ requests[pk].status = "draft") =>
                      routed(leave_update_view(DB, u, pk, TRUE, t, s, e), pk)

-----------------------------------------------------------------------------
\* C21: an accepted approve decision on a pending request at level L < 3 only
\* raises current_approval_level to L + 1 (status stays pending, approved_at
\* stays unset, balances are untouched); at L = 3 it sets status approved and
\* approved_at; and current_approval_level is always between 1 and 3.
C21_ApproveAdvances ==
    /\ \A p \in Pks(DB) : requests[p].current_approval_level \in 1..3
    /\ \A p \in Pks(DB), u \in Users, c \in Texts :
         LET leave == requests[p]
             out == approval_action_view(DB, u, p, "POST", "approved", c)
             after == out.db.requests[p]
         IN  leave.status = "pending" /\ out.result = "ok" =>
               IF leave.current_approval_level < 3
               THEN /\ after = [leave EXCEPT !.current_approval_level = @ + 1]
                    /\ after.status = "pending"
                    /\ ~after.approved_at
                    /\ out.db.balances = balances
               ELSE /\ after.status = "approved"
                    /\ after.approved_at
                    /\ after.current_approval_level = 3

\* a request went through the three levels and was approved
C21_Witness ==
    \E p \in Pks(DB) : /\ requests[p].status = "approved"
                       /\ requests[p].approved_at
                       /\ requests[p].current_approval_level = 3
                       /\ requests[p].submitted_at

\* C22: an accepted approve decision at level 3 on a pending request whose
\* leave type deducts from balance leaves the balance table as it was except
\* for the row of (owner, leave type, year of start_date), which is created
\* with zero counters when absent and whose used_days grows by exactly the
\* request's working_days, whatever remaining_days becomes; for a leave type
\* that does not deduct, the balance table is unchanged.
C22_FinalApprovalDebit ==
    \A p \in Pks(DB), u \in Users, c \in Texts :
        LET leave == requests[p]
            out == approval_action_view(DB, u, p, "POST", "approved", c)
            rows == {b \in balances : /\ b.user = leave.user
                                      /\ b.leave_type = leave.leave_type
                                      /\ b.year = year_of(leave.start_date)}
            fresh == [user |-> leave.user, leave_type |-> leave.leave_type,
                      year |-> year_of(leave.start_date),
                      entitled_days |-> 0, used_days |-> leave.working_days,
                      pending_days |-> 0, carried_over_days |-> 0]
        IN  /\ leave.status = "pending"
            /\ leave.current_approval_level = 3
            /\ out.result = "ok"
            => IF ~LeaveType[leave.leave_type].deduct_from_balance
               THEN out.db.balances = balances
               ELSE IF rows = {}
               THEN out.db.balances = balances \cup {fresh}
               ELSE out.db.balances = (balances \ rows) \cup
                       {[b EXCEPT !.used_days = @ + leave.working_days] : b \in rows}

\* a final approval debited a row that HR had credited, and overdrew it
C22_Witness ==
    \E p \in Pks(DB), b \in balances :
        /\ requests[p].status = "approved" /\ debited[p] = 1
        /\ requests[p].working_days > 0
        /\ b.user = requests[p].user /\ b.leave_type = requests[p].leave_type
        /\ b.year = year_of(requests[p].start_date)
        /\ b.entitled_days > 0
        /\ b.used_days >= requests[p].working_days
        /\ remaining_days(b) < 0

\* C26: entitled_days, used_days, pending_days and carried_over_days of every
\* balance row are never negative, whatever adjustments HR posts and whatever
\* requests are approved and debited.
C26_CountersNonNegative ==
    \A b \in balances : /\ b.entitled_days >= 0
                        /\ b.used_days >= 0
                        /\ b.pending_days >= 0
                        /\ b.carried_over_days >= 0

\* a row that was both adjusted (carried_over_days is only set by HR) and
\* debited by an approval, with entitled_days at zero
C26_Witness ==
    \E p \in Pks(DB), b \in balances :
        /\ debited[p] >= 1 /\ requests[p].working_days > 0
        /\ b.user = requests[p].user /\ b.leave_type = requests[p].leave_type
        /\ b.year = year_of(requests[p].start_date)
        /\ b.carried_over_days > 0
        /\ b.entitled_days = 0
        /\ b.used_days >= requests[p].working_days

\* C23: every pending request has submitted_at set and, when its leave type
\* requires approval, at least one approval record.
C23_PendingHasApproval ==
    \A p \in Pks(DB) :
        requests[p].status = "pending" =>
            /\ requests[p].submitted_at
            /\ LeaveType[requests[p].leave_type].requires_approval
                   => approvals_of(approvals, p) # {}

\* C24: a draft has no approval record and no decision posted by anyone
\* changes the database while the request is a draft; every approved or
\* rejected request has submitted_at set.
C24_DraftUndecidable ==
    \A p \in Pks(DB) :
        /\ requests[p].status = "draft" =>
              /\ approvals_of(approvals, p) = {}
              /\ \A u \in Users, d \in {"approved", "rejected"}, c \in Texts :
                    approval_action_view(DB, u, p, "POST", d, c).db = DB
        /\ requests[p].status \in {"approved", "rejected"} => requests[p].submitted_at

\* C25: every rejected request has an approval record with status rejected
\* and a non-empty comment.
C25_RejectionCommented ==
    \A p \in Pks(DB) :
        requests[p].status = "rejected" =>
            \E a \in approvals_of(approvals, p) :
                a.status = "rejected" /\ a.comments # ""

\* C27: no user has two distinct requests, each pending or approved, whose
\* date ranges overlap.
C27_NoOverlappingActive ==
    \A p \in Pks(DB), q \in Pks(DB) :
        /\ p # q
        /\ requests[p].user = requests[q].user
        /\ requests[p].status \in {"pending", "approved"}
        /\ requests[q].status \in {"pending", "approved"}
        => ~(/\ requests[p].start_date <= requests[q].end_date
             /\ requests[p].end_date >= requests[q].start_date)

\* C28: every pending or approved request has working_days equal to the
\* number of Monday-to-Friday dates of its current [start_date, end_date].
C28_WorkingDaysCurrent ==
    \A p \in Pks(DB) :
        requests[p].status \in {"pending", "approved"} =>
            requests[p].working_days
                = calculate_working_days(requests[p].start_date, requests[p].end_date)

\* C29: a pending request with a designated level-1 approver is eventually
\* approved when that approver keeps posting approve decisions for it and
\* nobody rejects or cancels it, whatever the approver's role.
C29_EventuallyApproved ==
    \A pk \in PairPks :
        (/\ pk \in Pks(DB)
         /\ requests[pk].status = "pending"
         /\ designated_approvers(DB, pk) # {})
        ~> (pk \in Pks(DB) /\ requests[pk].status = "approved")

\* C30: no approval record is signed by the owner of its request.
C30_NotSignedByOwner ==
    \A a \in approvals :
        a.signed_by # NULL => a.signed_by # requests[a.leave_request].user

====
